---- MODULE Spec2Model ----
(***************************************************************************)
(* Model of the daily task-scheduling optimizer of backend/ml_models.py:   *)
(* the heuristic priority scorer (TaskPrioritizer) and the genetic         *)
(* sequence optimizer (TaskSchedulerGA).                                   *)
(*                                                                         *)
(* Number representation.  Heuristic scores are kept in tenths (18.0 is    *)
(* 180) and fitness values in hundredths (0.5 is 50), so that every value  *)
(* the code computes is an exact integer here.  Days are whole clock units.*)
(* Task indices inside chromosomes are 0-based as in the code; a TLA+      *)
(* sequence position k holds the code's position k-1.                      *)
(***************************************************************************)
EXTENDS Integers, Sequences, FiniteSets, TLC

VARIABLES
    scheduler,      \* the cached TaskSchedulerGA instance: its configuration
    prioritizer,    \* the TaskPrioritizer instance: weights and thresholds
    now,            \* datetime.now(timezone.utc), in days
    rng,            \* the process-wide generator of the random module
    frames,         \* frames[i]: locals of optimize invocation i
    probe           \* last direct call of the scorer and what it returned

vars == <<scheduler, prioritizer, now, rng, frames, probe>>

(***************************************************************************)
(* Bounds of the model.                                                    *)
(***************************************************************************)
MaxTasks == 3
MaxPop == 3
MaxGen == 2
MaxClock == 1
StreamLen == 3

(***************************************************************************)
(* Generic helpers.                                                        *)
(***************************************************************************)
Max2(a, b) == IF a >= b THEN a ELSE b

Min2(a, b) == IF a <= b THEN a ELSE b

Abs(x) == IF x < 0 THEN 0 - x ELSE x

Range(s) == {s[k] : k \in DOMAIN s}

\* seq[:n] of Python: the first n elements, or all of them when there are fewer
Take(s, n) == SubSeq(s, 1, Min2(n, Len(s)))

\* the list without its element at (1-based) position k
RemoveAt(s, k) == SubSeq(s, 1, k - 1) \o SubSeq(s, k + 1, Len(s))

Swap(s, a, b) == [s EXCEPT ![a] = s[b], ![b] = s[a]]

RECURSIVE Factorial(_)
Factorial(n) == IF n <= 1 THEN 1 ELSE n * Factorial(n - 1)

\* number of ordered samples of k distinct elements out of m
RECURSIVE Arrangements(_, _)
Arrangements(m, k) == IF k = 0 THEN 1 ELSE m * Arrangements(m - 1, k - 1)

(***************************************************************************)
(* Input values.  A field of a task or context is a string; the strings    *)
(* "absent" and "null" stand for a missing key and for None.               *)
(***************************************************************************)
Absent == "absent"
Null == "null"

\* str.lower() on the labels that occur in the model
Lower(s) ==
    CASE s = "HARD" -> "hard"
      [] s = "Medium" -> "medium"
      [] s = "Okay" -> "okay"
      [] s = "TIRED" -> "tired"
      [] s = "Focused" -> "focused"
      [] OTHER -> s

\* urgency values: an integer, a numeric string, a non-numeric string, None or missing
UInt(n) == [t |-> "int", v |-> n]
UStr(n) == [t |-> "numstr", v |-> n]
UBad == [t |-> "badstr", v |-> 0]
UNull == [t |-> Null, v |-> 0]
UAbsent == [t |-> Absent, v |-> 0]

\* deadline values: an ISO timestamp of day d, a timezone-aware datetime of day d,
\* an unparseable string, None or missing
DDay(d) == [t |-> "iso", v |-> d]
DDate(d) == [t |-> "datetime", v |-> d]
DBad == [t |-> "badstr", v |-> 0]
DNone == [t |-> Null, v |-> 0]

\* a task record; _id is the key of a raw document of the store
Task(id, difficulty, urgency, deadline) ==
    [id |-> id, _id |-> Absent, difficulty |-> difficulty, urgency |-> urgency,
     deadline |-> deadline]

NoContext == [present |-> FALSE, mood |-> Absent]
Ctx(mood) == [present |-> TRUE, mood |-> mood]

(***************************************************************************)
(* TaskPrioritizer: the heuristic scorer.                                  *)
(***************************************************************************)
\* TaskPrioritizer.__init__: heuristic weights and thresholds, in tenths
DefaultPrioritizer ==
    [heuristic_weights |-> [urgency |-> 50, days_remaining |-> -20, difficulty |-> 10],
     heuristic_thresholds |-> [high |-> 180, medium |-> 100]]

Returned(v) == [ok |-> TRUE, value |-> v, error |-> "none"]
Raised(e) == [ok |-> FALSE, value |-> 0, error |-> e]

\* int(task.get('urgency', 3))
urgency_raw(task) ==
    CASE task.urgency.t = Absent -> Returned(3)
      [] task.urgency.t = "int" -> Returned(task.urgency.v)
      [] task.urgency.t = "numstr" -> Returned(task.urgency.v)
      [] task.urgency.t = "badstr" -> Raised("ValueError: int(str)")
      [] OTHER -> Raised("TypeError: int(None)")

\* (deadline_dt - datetime.now(timezone.utc)).days for a parseable deadline
delta_days(deadline, clock) == deadline.v - clock

\* the days_remaining of calculate_priority_score: clamped, 7 when there is
\* no deadline or when parsing it raises
days_remaining(task, clock) ==
    IF task.deadline.t \in {"iso", "datetime"}
    THEN Max2(-7, Min2(21, delta_days(task.deadline, clock)))
    ELSE 7

\* task.get('difficulty', 'medium')
difficulty_of(task) == IF task.difficulty = Absent THEN "medium" ELSE task.difficulty

\* difficulty_map.get(difficulty, 2)
difficulty_score(task) ==
    CASE difficulty_of(task) = "easy" -> 1
      [] difficulty_of(task) = "medium" -> 2
      [] difficulty_of(task) = "hard" -> 3
      [] OTHER -> 2

\* (context.get('mood') or '').lower()
mood_of(context) ==
    IF context.mood \in {Absent, Null, ""} THEN "" ELSE Lower(context.mood)

apply_fuzzy_logic_CaseSensitive(p, score, task, context) ==
    IF ~context.present THEN Returned(score)
    ELSE IF difficulty_of(task) = Null THEN Raised("AttributeError: None.lower")
    ELSE LET mood == IF context.mood \in {Absent, Null} THEN "" ELSE context.mood
             difficulty == Lower(difficulty_of(task))
             s1 == IF mood \in {"okay", "focused"} /\ difficulty = "medium"
                   THEN Max2(score, p.heuristic_thresholds.high)
                   ELSE score
             s2 == IF mood \in {"sad", "very_sad", "tired"} /\ difficulty = "hard"
                   THEN s1 - 40
                   ELSE s1
         IN  Returned(s2)

\* apply_fuzzy_logic: the score adjusted by the mood rules; None has no lower()
apply_fuzzy_logic(p, score, task, context) ==
    IF ~context.present THEN Returned(score)
    ELSE IF difficulty_of(task) = Null THEN Raised("AttributeError: None.lower")
    ELSE LET mood == mood_of(context)
             difficulty == Lower(difficulty_of(task))
             s1 == IF mood \in {"okay", "focused"} /\ difficulty = "medium"
                   THEN Max2(score, p.heuristic_thresholds.high)
                   ELSE score
             s2 == IF mood \in {"sad", "very_sad", "tired"} /\ difficulty = "hard"
                   THEN s1 - 40
                   ELSE s1
         IN  Returned(s2)

\* calculate_priority_score: weighted sum of urgency, days remaining and difficulty
calculate_priority_score(p, task, context, clock) ==
    LET u == urgency_raw(task) IN
    IF ~u.ok THEN u
    ELSE LET urgency_score == 6 - Max2(1, Min2(5, u.value))
             score == p.heuristic_weights.urgency * urgency_score
                      + p.heuristic_weights.days_remaining * days_remaining(task, clock)
                      + p.heuristic_weights.difficulty * difficulty_score(task)
         IN  apply_fuzzy_logic(p, score, task, context)

map_score_to_priority_Swapped(p, score) ==
    IF score > p.heuristic_thresholds.high THEN "high"
    ELSE IF score > p.heuristic_thresholds.medium THEN "medium"
    ELSE "low"

\* map_score_to_priority: the label of a score
map_score_to_priority(p, score) ==
    IF score >= p.heuristic_thresholds.high THEN "high"
    ELSE IF score >= p.heuristic_thresholds.medium THEN "medium"
    ELSE "low"

\* heuristic_priority: (label, score), or the exception of the scorer
heuristic_priority(p, task, context, clock) ==
    LET s == calculate_priority_score(p, task, context, clock) IN
    IF ~s.ok THEN [ok |-> FALSE, label |-> "none", score |-> 0, error |-> s.error]
    ELSE [ok |-> TRUE, label |-> map_score_to_priority(p, s.value),
          score |-> s.value, error |-> "none"]

(***************************************************************************)
(* The random module.  Every call is decoded from one raw number r of the  *)
(* generator; all outcomes of the call are covered as r ranges over        *)
(* 0 .. (number of outcomes - 1).                                          *)
(***************************************************************************)
\* random.random(), in hundredths: a representative below the mutation rate
\* 0.15 and the crossover rate 0.75, and one above both
RandomValues == <<10, 90>>

random_random(r) == RandomValues[(r % Len(RandomValues)) + 1]

\* random.shuffle(x): for i in reversed(range(1, len(x))): j = randbelow(i + 1); swap
RECURSIVE ShuffleFrom(_, _, _)
ShuffleFrom(x, i, r) ==
    IF i < 1 THEN x
    ELSE ShuffleFrom(Swap(x, i + 1, (r % (i + 1)) + 1), i - 1, r \div (i + 1))

random_shuffle(x, r) == ShuffleFrom(x, Len(x) - 1, r)

\* random.sample(population, k) for k <= len(population): k distinct elements in
\* selection order
RECURSIVE random_sample(_, _, _)
random_sample(population, k, r) ==
    IF k = 0 THEN <<>>
    ELSE LET idx == (r % Len(population)) + 1
         IN  <<population[idx]>>
             \o random_sample(RemoveAt(population, idx), k - 1, r \div Len(population))

\* list(range(n))
RangeList(n) == [k \in 1..n |-> k - 1]

(***************************************************************************)
(* Sorting: list.sort / sorted with reverse=True keep the original order   *)
(* of items with equal keys.  Items are tuples <<key, value>>.             *)
(***************************************************************************)
RECURSIVE InsertDesc(_, _)
InsertDesc(sorted, item) ==
    IF sorted = <<>> THEN <<item>>
    ELSE IF sorted[Len(sorted)][1] >= item[1] THEN Append(sorted, item)
    ELSE Append(InsertDesc(SubSeq(sorted, 1, Len(sorted) - 1), item), sorted[Len(sorted)])

RECURSIVE SortDesc(_)
SortDesc(items) ==
    IF items = <<>> THEN <<>>
    ELSE InsertDesc(SortDesc(SubSeq(items, 1, Len(items) - 1)), items[Len(items)])

(***************************************************************************)
(* TaskSchedulerGA: fitness and genetic operators.                         *)
(***************************************************************************)
NoneGene == -1
NoneChromosome == <<>>
NegInf == -1000000

\* _days_until_deadline: None unless the deadline parses
days_until_deadline(task, clock) ==
    IF task.deadline.t \in {"iso", "datetime"}
    THEN [known |-> TRUE, days |-> delta_days(task.deadline, clock)]
    ELSE [known |-> FALSE, days |-> 0]

\* _mood_bonus raises where None.lower() is evaluated
mood_bonus_raises(task, context) ==
    mood_of(context) # "" /\ difficulty_of(task) = Null

\* _mood_bonus, in hundredths; position is 0-based
mood_bonus(task, context, position, total_tasks) ==
    LET mood == mood_of(context)
        difficulty == Lower(difficulty_of(task))
        position_factor == Max2(0, total_tasks - position)
    IN  IF mood = "" THEN 0
        ELSE IF mood \in {"focused", "okay", "energetic"} /\ difficulty \in {"hard", "medium"}
             THEN position_factor * 50
        ELSE IF mood \in {"sad", "very_sad", "tired"} /\ difficulty = "hard"
             THEN 0 - 100 * (position + 1)
        ELSE 0

deadline_adjustment_Clamped(task, clock) ==
    LET d == days_remaining(task, clock) IN
    IF task.deadline.t \notin {"iso", "datetime"} THEN 0
    ELSE IF d < 0 THEN 0 - Abs(d) * 500
    ELSE IF d <= 2 THEN 200
    ELSE IF d > 7 THEN 0 - 50
    ELSE 0

\* the deadline adjustment of one task inside _fitness, in hundredths
deadline_adjustment(task, clock) ==
    LET d == days_until_deadline(task, clock) IN
    IF ~d.known THEN 0
    ELSE IF d.days < 0 THEN 0 - Abs(d.days) * 500
    ELSE IF d.days <= 2 THEN 200
    ELSE IF d.days > 7 THEN 0 - 50
    ELSE 0

gene_fitness_Positional(chromosome, position, tasks, base_metrics, context, clock) ==
    LET task_idx == chromosome[position + 1]
        metrics == base_metrics[task_idx + 1]
        task == tasks[task_idx + 1]
        total_tasks == Len(chromosome)
    IN  (100 * metrics.weight + metrics.score) * (total_tasks - position)
        + deadline_adjustment(task, clock)
        + mood_bonus(task, context, position, total_tasks)

\* the contribution of the task at 0-based position to _fitness
gene_fitness(chromosome, position, tasks, base_metrics, context, clock) ==
    LET task_idx == chromosome[position + 1]
        metrics == base_metrics[task_idx + 1]
        task == tasks[task_idx + 1]
        total_tasks == Len(chromosome)
    IN  100 * metrics.weight * (total_tasks - position)
        + metrics.score
        + deadline_adjustment(task, clock)
        + mood_bonus(task, context, position, total_tasks)

RECURSIVE fitness_upto(_, _, _, _, _, _)
fitness_upto(chromosome, n, tasks, base_metrics, context, clock) ==
    IF n = 0 THEN 0
    ELSE fitness_upto(chromosome, n - 1, tasks, base_metrics, context, clock)
         + gene_fitness(chromosome, n - 1, tasks, base_metrics, context, clock)

\* _fitness: total_score - penalty + mood_bonus
fitness(chromosome, tasks, base_metrics, context, clock) ==
    fitness_upto(chromosome, Len(chromosome), tasks, base_metrics, context, clock)

fitness_raises(chromosome, tasks, context) ==
    \E k \in DOMAIN chromosome : mood_bonus_raises(tasks[chromosome[k] + 1], context)

RECURSIVE fill_child_NoSkip(_, _, _, _)
fill_child_NoSkip(child, parent2, k, pointer) ==
    IF k > Len(parent2) THEN [child |-> child, pointer |-> pointer, ok |-> TRUE]
    ELSE LET free == {q \in pointer..(Len(child) - 1) : child[q + 1] = NoneGene}
         IN  IF free = {}
             THEN [child |-> child, pointer |-> Len(child), ok |-> FALSE]
             ELSE LET ptr == CHOOSE q \in free : \A q2 \in free : q <= q2
                  IN  fill_child_NoSkip([child EXCEPT ![ptr + 1] = parent2[k]],
                                        parent2, k + 1, ptr)

\* the fill loop of _crossover from gene k of parent2 on; pointer is 0-based
RECURSIVE fill_child(_, _, _, _)
fill_child(child, parent2, k, pointer) ==
    IF k > Len(parent2) THEN [child |-> child, pointer |-> pointer, ok |-> TRUE]
    ELSE IF parent2[k] \in Range(child) THEN fill_child(child, parent2, k + 1, pointer)
    ELSE LET free == {q \in pointer..(Len(child) - 1) : child[q + 1] = NoneGene}
         IN  IF free = {}
             THEN [child |-> child, pointer |-> Len(child), ok |-> FALSE]
             ELSE LET ptr == CHOOSE q \in free : \A q2 \in free : q <= q2
                  IN  fill_child([child EXCEPT ![ptr + 1] = parent2[k]], parent2, k + 1, ptr)

\* the order crossover of _crossover for cut points start < end (0-based)
order_crossover(parent1, parent2, start, end) ==
    fill_child([k \in 1..Len(parent1) |->
                    IF start < k /\ k <= end THEN parent1[k] ELSE NoneGene],
               parent2, 1, 0)

\* the swap of _mutate for the sampled positions i, j (0-based)
swap_mutation(chromosome, i, j) == Swap(chromosome, i + 1, j + 1)

tournament_pool_Whole(scored_population) == scored_population

\* the pool of _tournament_select
tournament_pool(scored_population) ==
    Take(scored_population,
         Max2(3, Min2(Len(scored_population), Max2(5, Len(scored_population) \div 2))))

\* contenders = random.sample(pool, k), before they are sorted
tournament_contenders(scored_population, r) ==
    LET pool == tournament_pool(scored_population)
    IN  random_sample(pool, Min2(Len(pool), 3), r)

\* _tournament_select for the generator output r
tournament_select(scored_population, r) ==
    LET pool == tournament_pool(scored_population)
        k == Min2(Len(pool), 3)
        contenders == SortDesc(tournament_contenders(scored_population, r))
    IN  contenders[1][2]

elite_count_Single(population_size) == Max2(1, population_size \div 5)

elite_count_Min(population_size) == Min2(2, population_size \div 5)

\* elite_count = max(2, self.population_size // 5)
elite_count(population_size) == Max2(2, population_size \div 5)

(***************************************************************************)
(* TaskSchedulerGA.optimize as a state machine.  A frame holds the locals  *)
(* of one invocation; pc is the position in the code:                      *)
(*   idle      not called          seed      the seeding loop              *)
(*   evaluate  top of a generation select1, select2, crossover, mutate     *)
(*   finish    after the loop      done      returned     raised  threw    *)
(* A local is cleared where the code can no longer read its value before   *)
(* assigning it again: population once the generation is ranked, and       *)
(* scored_population, next_population, parent1, parent2 and child once the *)
(* next population has replaced the current one.                           *)
(***************************************************************************)
Labels == {"high", "medium", "low"}

NoResult == [schedule |-> <<>>, metadata |-> [none |-> TRUE]]

\* what optimize returns for an empty task list
EmptyResult ==
    [schedule |-> <<>>,
     metadata |-> [fitness |-> 0, generations |-> 0, prioritySummary |-> [l \in {} |-> 0]]]

IdleFrame ==
    [pc |-> "idle", tasks |-> <<>>, context |-> NoContext,
     base_metrics |-> <<>>, heuristic_order |-> <<>>, population |-> <<>>,
     generation |-> 0, scored_population |-> <<>>, next_population |-> <<>>,
     parent1 |-> <<>>, parent2 |-> <<>>, child |-> <<>>,
     fitness_history |-> <<>>, best_chromosome |-> NoneChromosome,
     best_fitness |-> NegInf, best_generation |-> 0,
     result |-> NoResult, error |-> "none"]

fresh_locals_Kept(f) ==
    [fitness_history |-> f.fitness_history, best_chromosome |-> NoneChromosome,
     best_fitness |-> f.best_fitness, best_generation |-> 0]

\* fitness_history, best_chromosome, best_fitness, best_generation before the
\* loop; f is the frame left by the previous call on this scheduler
fresh_locals(f) ==
    [fitness_history |-> <<>>, best_chromosome |-> NoneChromosome,
     best_fitness |-> NegInf, best_generation |-> 0]

priority_map_Inverted(label) ==
    CASE label = "high" -> 1 [] label = "medium" -> 2 [] OTHER -> 3

\* priority_map
priority_map(label) ==
    CASE label = "high" -> 3 [] label = "medium" -> 2 [] OTHER -> 1

\* the (label, score) of every task, in input order
scored_tasks(p, tasks, context, clock) ==
    [k \in DOMAIN tasks |-> heuristic_priority(p, tasks[k], context, clock)]

\* base_metrics
metrics_of(p, tasks, context, clock) ==
    [k \in DOMAIN tasks |->
        LET h == heuristic_priority(p, tasks[k], context, clock)
        IN  [index |-> k - 1, label |-> h.label, score |-> h.score,
             weight |-> priority_map(h.label)]]

\* sorted(index_list, key=lambda i: base_metrics[i]["score"], reverse=True)
heuristic_order_of(base_metrics) ==
    LET sorted == SortDesc([k \in DOMAIN base_metrics |-> <<base_metrics[k].score, k - 1>>])
    IN  [k \in DOMAIN sorted |-> sorted[k][2]]

\* where the for-loop over generations continues
loop_head(generation, generations) ==
    IF generation < generations THEN "evaluate" ELSE "finish"

RaisedFrame(f, e) == [f EXCEPT !.pc = "raised", !.error = e]

\* optimize up to the seeding loop
call_frame(f, sched, p, tasks, context, clock) ==
    LET base == [IdleFrame EXCEPT !.tasks = tasks, !.context = context] IN
    IF tasks = <<>> THEN [base EXCEPT !.pc = "done", !.result = EmptyResult]
    ELSE LET hs == scored_tasks(p, tasks, context, clock)
             bad == {k \in DOMAIN tasks : ~hs[k].ok}
         IN  IF bad # {}
             THEN RaisedFrame(base, hs[CHOOSE k \in bad : \A k2 \in bad : k <= k2].error)
             ELSE LET base_metrics == metrics_of(p, tasks, context, clock)
                      heuristic_order == heuristic_order_of(base_metrics)
                      loc == fresh_locals(f)
                  IN  [base EXCEPT
                         !.base_metrics = base_metrics,
                         !.heuristic_order = heuristic_order,
                         !.population = <<heuristic_order>>,
                         !.fitness_history = loc.fitness_history,
                         !.best_chromosome = loc.best_chromosome,
                         !.best_fitness = loc.best_fitness,
                         !.best_generation = loc.best_generation,
                         !.pc = IF sched.population_size - 1 > 0 THEN "seed"
                                ELSE loop_head(0, sched.generations)]

seed_frame_InPlace(f, sched, r) ==
    LET shuffled == random_shuffle(f.heuristic_order, r)
        population == Append(f.population, shuffled)
    IN  [f EXCEPT !.heuristic_order = shuffled,
                  !.population = population,
                  !.pc = IF Len(population) < sched.population_size THEN "seed"
                         ELSE loop_head(0, sched.generations)]

\* one pass of the seeding loop: a shuffled copy of heuristic_order
seed_frame(f, sched, r) ==
    LET shuffled == random_shuffle(f.heuristic_order, r)
        population == Append(f.population, shuffled)
    IN  [f EXCEPT !.population = population,
                  !.pc = IF Len(population) < sched.population_size THEN "seed"
                         ELSE loop_head(0, sched.generations)]

close_generation_Extra(f, sched, next_population) ==
    IF Len(next_population) <= sched.population_size
    THEN [f EXCEPT !.next_population = next_population, !.pc = "select1"]
    ELSE [f EXCEPT !.population = next_population,
                   !.generation = f.generation + 1,
                   !.scored_population = <<>>, !.next_population = <<>>,
                   !.parent1 = <<>>, !.parent2 = <<>>, !.child = <<>>,
                   !.pc = loop_head(f.generation + 1, sched.generations)]

\* the end of one pass of the generation loop
close_generation(f, sched, next_population) ==
    IF Len(next_population) < sched.population_size
    THEN [f EXCEPT !.next_population = next_population, !.pc = "select1"]
    ELSE [f EXCEPT !.population = next_population,
                   !.generation = f.generation + 1,
                   !.scored_population = <<>>, !.next_population = <<>>,
                   !.parent1 = <<>>, !.parent2 = <<>>, !.child = <<>>,
                   !.pc = loop_head(f.generation + 1, sched.generations)]

replaces_best_Always(top_fitness, best_fitness) == TRUE

replaces_best_OnTie(top_fitness, best_fitness) == top_fitness >= best_fitness

\* if scored_population[0][0] > best_fitness
replaces_best(top_fitness, best_fitness) == top_fitness > best_fitness

\* evaluate, rank, record, remember the best, carry the elites
evaluate_frame(f, sched, clock) ==
    IF \E k \in DOMAIN f.population : fitness_raises(f.population[k], f.tasks, f.context)
    THEN RaisedFrame(f, "AttributeError: None.lower")
    ELSE LET scored == SortDesc([k \in DOMAIN f.population |->
                            <<fitness(f.population[k], f.tasks, f.base_metrics,
                                      f.context, clock),
                              f.population[k]>>])
             better == replaces_best(scored[1][1], f.best_fitness)
             g == [f EXCEPT
                     !.population = <<>>,
                     !.scored_population = scored,
                     !.fitness_history = Append(f.fitness_history, scored[1][1]),
                     !.best_fitness = IF better THEN scored[1][1] ELSE @,
                     !.best_chromosome = IF better THEN scored[1][2] ELSE @,
                     !.best_generation = IF better THEN f.generation + 1 ELSE @]
             elites == Take(scored, elite_count(sched.population_size))
         IN  close_generation(g, sched, [k \in DOMAIN elites |-> elites[k][2]])

\* parent1 = self._tournament_select(scored_population)
select1_frame(f, r) ==
    [f EXCEPT !.parent1 = tournament_select(f.scored_population, r), !.pc = "select2"]

\* parent2 = self._tournament_select(scored_population)
select2_frame(f, r) ==
    [f EXCEPT !.parent2 = tournament_select(f.scored_population, r), !.pc = "crossover"]

\* sorted(random.sample(range(size), 2)), decoded from r
cut_points(size, r) ==
    LET pair == random_sample(RangeList(size), 2, r)
    IN  <<Min2(pair[1], pair[2]), Max2(pair[1], pair[2])>>

crossover_Unchecked(sched, parent1, parent2, r) ==
    IF random_random(r) > sched.crossover_rate THEN Returned(parent1)
    ELSE IF Len(parent1) < 2 THEN Raised("ValueError: random.sample")
    ELSE LET cut == cut_points(Len(parent1), r \div Len(RandomValues))
         IN  Returned([k \in 1..Len(parent1) |->
                          IF cut[1] < k /\ k <= cut[2] THEN parent1[k]
                          ELSE parent2[k]])

crossover_Wrapped(sched, parent1, parent2, r) ==
    IF random_random(r) > sched.crossover_rate THEN Returned(parent1)
    ELSE IF Len(parent1) < 2 THEN Raised("ValueError: random.sample")
    ELSE LET cut == cut_points(Len(parent1), r \div Len(RandomValues))
             n == Len(parent1)
             slice == {parent1[k] : k \in (cut[1] + 1)..cut[2]}
             Outside(gene) == gene \notin slice
             rest == SelectSeq(parent2, Outside)
         IN  Returned([k \in 1..n |->
                          IF cut[1] < k /\ k <= cut[2] THEN parent1[k]
                          ELSE IF k > cut[2] THEN rest[k - cut[2]]
                          ELSE rest[(n - cut[2]) + k]])

\* _crossover: a copy of parent1, or the order crossover of the parents;
\* random.sample raises ValueError when fewer than 2 positions exist
crossover(sched, parent1, parent2, r) ==
    IF random_random(r) > sched.crossover_rate THEN Returned(parent1)
    ELSE IF Len(parent1) < 2 THEN Raised("ValueError: random.sample")
    ELSE LET cut == cut_points(Len(parent1), r \div Len(RandomValues))
             filled == order_crossover(parent1, parent2, cut[1], cut[2])
         IN  IF filled.ok THEN Returned(filled.child) ELSE Raised("IndexError: child[pointer]")

mutate_Overwrite(sched, chromosome, r) ==
    IF random_random(r) > sched.mutation_rate THEN Returned(chromosome)
    ELSE IF Len(chromosome) < 2 THEN Raised("ValueError: random.sample")
    ELSE LET pair == random_sample(RangeList(Len(chromosome)), 2, r \div Len(RandomValues))
         IN  Returned([chromosome EXCEPT ![pair[1] + 1] = chromosome[pair[2] + 1]])

\* _mutate: the chromosome itself, or a copy with two positions swapped
mutate(sched, chromosome, r) ==
    IF random_random(r) > sched.mutation_rate THEN Returned(chromosome)
    ELSE IF Len(chromosome) < 2 THEN Raised("ValueError: random.sample")
    ELSE LET pair == random_sample(RangeList(Len(chromosome)), 2, r \div Len(RandomValues))
         IN  Returned(swap_mutation(chromosome, pair[1], pair[2]))

\* The list object an operator returns: "new" for a list built in the call,
\* "argument" for the very list it was passed.
\* _tournament_select returns the slice contenders[0][1][:]
tournament_select_object(scored_population, r) == "new"

\* _crossover returns the slice parent1[:] or the list child it has built
crossover_object(sched, parent1, parent2, r) == "new"

\* _mutate returns chromosome when it does not mutate, else the slice it swapped in
mutate_object(sched, chromosome, r) ==
    IF random_random(r) > sched.mutation_rate THEN "argument" ELSE "new"

\* child = self._crossover(parent1, parent2)
crossover_frame(f, sched, r) ==
    LET c == crossover(sched, f.parent1, f.parent2, r) IN
    IF c.ok THEN [f EXCEPT !.child = c.value, !.pc = "mutate"]
    ELSE RaisedFrame(f, c.error)

\* child = self._mutate(child); next_population.append(child)
mutate_frame(f, sched, r) ==
    LET m == mutate(sched, f.child, r) IN
    IF m.ok THEN close_generation([f EXCEPT !.child = m.value], sched,
                                  Append(f.next_population, m.value))
    ELSE RaisedFrame(f, m.error)

\* round(score, 2), the score being in tenths and the result in hundredths
round2(score) == 10 * score

annotate_Sanitised(task, metrics, rank) ==
    [id |-> IF task._id # Absent THEN task._id ELSE task.id,
     _id |-> Absent,
     difficulty |-> Lower(difficulty_of(task)),
     urgency |-> task.urgency,
     deadline |-> IF task.deadline.t = "datetime" THEN DDay(task.deadline.v)
                  ELSE task.deadline,
     heuristicPriority |-> metrics.label,
     heuristicScore |-> round2(metrics.score),
     gaRank |-> rank]

\* one entry of ordered_tasks: a copy of the task with the derived fields, its
\* key _id moved to id, and a datetime deadline replaced by its ISO string
annotate(task, metrics, rank) ==
    [id |-> IF task._id # Absent THEN task._id ELSE task.id,
     _id |-> Absent,
     difficulty |-> task.difficulty,
     urgency |-> task.urgency,
     deadline |-> IF task.deadline.t = "datetime" THEN DDay(task.deadline.v)
                  ELSE task.deadline,
     heuristicPriority |-> metrics.label,
     heuristicScore |-> round2(metrics.score),
     gaRank |-> rank]

\* prioritySummary
summary_of(base_metrics) ==
    [l \in Labels |-> Cardinality({k \in DOMAIN base_metrics : base_metrics[k].label = l})]

\* the code after the generation loop
finish_frame(f) ==
    LET best == IF f.best_chromosome = NoneChromosome THEN f.heuristic_order
                ELSE f.best_chromosome
    IN  [f EXCEPT
           !.best_chromosome = best,
           !.pc = "done",
           !.result =
              [schedule |-> [k \in DOMAIN best |->
                                annotate(f.tasks[best[k] + 1], f.base_metrics[best[k] + 1], k)],
               metadata |-> [fitness |-> f.best_fitness,
                             evaluatedGenerations |-> f.best_generation,
                             fitnessHistory |-> f.fitness_history,
                             prioritySummary |-> summary_of(f.base_metrics)]]]

\* how many outcomes the random call at f.pc has
RawCount(f) ==
    CASE f.pc = "seed" -> Factorial(Len(f.heuristic_order))
      [] f.pc \in {"select1", "select2"} ->
            Arrangements(Len(tournament_pool(f.scored_population)),
                         Min2(Len(tournament_pool(f.scored_population)), 3))
      [] f.pc = "crossover" ->
            Len(RandomValues) * Max2(1, Arrangements(Len(f.parent1), 2))
      [] f.pc = "mutate" ->
            Len(RandomValues) * Max2(1, Arrangements(Len(f.child), 2))
      [] OTHER -> 1

(***************************************************************************)
(* Actions.  Invocation i runs on the one cached scheduler.  The actions   *)
(* that call the random module take the generator output r as a parameter. *)
(***************************************************************************)
Invocations == {1, 2, 3}

Running(f) == f.pc \notin {"idle", "done", "raised"}

Frame_Tuned(i, f) ==
    /\ frames' = [frames EXCEPT ![i] = f]
    /\ scheduler' = [scheduler EXCEPT !.mutation_rate = IF f.pc = "done" THEN 10 ELSE @]
    /\ UNCHANGED <<prioritizer, now, probe>>

\* a step of optimize: it assigns locals only, no attribute of self
Frame(i, f) ==
    /\ frames' = [frames EXCEPT ![i] = f]
    /\ UNCHANGED <<scheduler, prioritizer, now, probe>>

Call(i, tasks, context) ==
    /\ ~Running(frames[i])
    /\ Frame(i, call_frame(frames[i], scheduler, prioritizer, tasks, context, now))

Seed(i, r) ==
    /\ frames[i].pc = "seed"
    /\ Frame(i, seed_frame(frames[i], scheduler, r))

Evaluate(i) ==
    /\ frames[i].pc = "evaluate"
    /\ Frame(i, evaluate_frame(frames[i], scheduler, now))

Select1(i, r) ==
    /\ frames[i].pc = "select1"
    /\ Frame(i, select1_frame(frames[i], r))

Select2(i, r) ==
    /\ frames[i].pc = "select2"
    /\ Frame(i, select2_frame(frames[i], r))

Crossover(i, r) ==
    /\ frames[i].pc = "crossover"
    /\ Frame(i, crossover_frame(frames[i], scheduler, r))

Mutate(i, r) ==
    /\ frames[i].pc = "mutate"
    /\ Frame(i, mutate_frame(frames[i], scheduler, r))

Finish(i) ==
    /\ frames[i].pc = "finish"
    /\ Frame(i, finish_frame(frames[i]))

\* the wall clock advances; optimize reads it when it scores the tasks and
\* when it evaluates a generation, so an advance is placed before those
Tick ==
    /\ now < MaxClock
    /\ \E i \in Invocations : frames[i].pc \in {"idle", "evaluate"}
    /\ now' = now + 1
    /\ UNCHANGED <<scheduler, prioritizer, frames, probe>>

(***************************************************************************)
(* Inputs: task batches are the prefixes, of at most MaxTasks tasks, of    *)
(* the lists of BaseBatches.                                               *)
(***************************************************************************)
TaskA == Task("a", "medium", UInt(3), DNone)
TaskB == Task("b", "hard", UInt(1), DDay(1))
TaskC == Task("c", "easy", UStr(2), DDay(-3))
TaskD == Task("d", "HARD", UInt(9), DDay(10))
TaskE == Task("e", Absent, UAbsent, DBad)
TaskF == Task("f", "hard", UNull, DNone)
TaskG == Task("g", Null, UInt(2), DNone)
TaskH == Task("h", "easy", UBad, DDay(2))
TaskI == Task("i", "hard", UInt(2), DDay(-10))
TaskM == [Task("m", "medium", UInt(2), DDate(1)) EXCEPT !._id = "m"]
TaskN == Task("n", "medium", UInt(3), DNone)
TaskJ == Task("j", "hard", UInt(5), DDay(10))

BaseBatches ==
    { <<TaskB, TaskC, TaskA, TaskE, TaskD>>,
      <<TaskD, TaskA>>,
      <<TaskM, TaskB>>,
      <<TaskA, TaskN>>,
      <<TaskF>>,
      <<TaskA, TaskG>>,
      <<TaskE, TaskH>> }

Batches ==
    {Take(b, n) : b \in BaseBatches, n \in 0..MaxTasks}

Contexts == {NoContext, Ctx("Okay"), Ctx("TIRED")}

\* TaskSchedulerGA.__init__ with the given sizes; rates in hundredths
Scheduler(population_size, generations) ==
    [population_size |-> population_size, generations |-> generations,
     crossover_rate |-> 75, mutation_rate |-> 15]

NoProbe ==
    [op |-> "none", task |-> TaskA, context |-> NoContext, clock |-> 0,
     score |-> 0, label |-> "none", error |-> "none"]

UnseededRng == [stream |-> <<>>, global |-> 0, private |-> 0]

Init ==
    /\ scheduler \in {Scheduler(ps, g) : ps \in 1..MaxPop, g \in {0, MaxGen}}
    /\ prioritizer = DefaultPrioritizer
    /\ now = 0
    /\ rng = UnseededRng
    /\ frames = [i \in Invocations |-> IdleFrame]
    /\ probe = NoProbe

\* the steps of optimize that call the random module
Draw(i, r) ==
    \/ Seed(i, r)
    \/ Select1(i, r)
    \/ Select2(i, r)
    \/ Crossover(i, r)
    \/ Mutate(i, r)

\* the steps of optimize that do not
Step(i) ==
    \/ Evaluate(i)
    \/ Finish(i)

Next ==
    \/ \E tasks \in Batches, context \in Contexts :
          frames[1].pc = "idle" /\ Call(1, tasks, context) /\ UNCHANGED rng
    \/ \E r \in 0..(RawCount(frames[1]) - 1) : Draw(1, r) /\ UNCHANGED rng
    \/ Step(1) /\ UNCHANGED rng
    \/ Tick /\ UNCHANGED rng

Spec == Init /\ [][Next]_vars

(***************************************************************************)
(* Runs with a population large enough for populationSize // 5 to exceed 2 *)
(* (on batches of one task, whose shuffles all coincide), besides the      *)
(* populations of Spec.                                                    *)
(***************************************************************************)
BigPop == 15

InitElitism ==
    /\ scheduler \in {Scheduler(ps, MaxGen) : ps \in (1..MaxPop) \cup {BigPop}}
    /\ prioritizer = DefaultPrioritizer
    /\ now = 0
    /\ rng = UnseededRng
    /\ frames = [i \in Invocations |-> IdleFrame]
    /\ probe = NoProbe

NextElitism ==
    \/ \E tasks \in Batches, context \in Contexts :
          /\ frames[1].pc = "idle"
          /\ scheduler.population_size > MaxPop => Len(tasks) = 1
          /\ Call(1, tasks, context)
          /\ UNCHANGED rng
    \/ \E r \in 0..(RawCount(frames[1]) - 1) : Draw(1, r) /\ UNCHANGED rng
    \/ Step(1) /\ UNCHANGED rng
    \/ Tick /\ UNCHANGED rng

SpecElitism == InitElitism /\ [][NextElitism]_vars

(***************************************************************************)
(* Runs during which the clock does not advance: the run starts at any     *)
(* clock value and no day boundary is crossed before it returns.           *)
(***************************************************************************)
InitFixedClock ==
    /\ scheduler \in {Scheduler(ps, MaxGen) : ps \in 1..MaxPop}
    /\ prioritizer = DefaultPrioritizer
    /\ now \in 0..MaxClock
    /\ rng = UnseededRng
    /\ frames = [i \in Invocations |-> IdleFrame]
    /\ probe = NoProbe

NextFixedClock ==
    \/ \E tasks \in Batches, context \in Contexts \cup {Ctx("")} :
          frames[1].pc = "idle" /\ Call(1, tasks, context) /\ UNCHANGED rng
    \/ \E r \in 0..(RawCount(frames[1]) - 1) : Draw(1, r) /\ UNCHANGED rng
    \/ Step(1) /\ UNCHANGED rng

SpecFixedClock == InitFixedClock /\ [][NextFixedClock]_vars

(***************************************************************************)
(* The scorer called directly: heuristic_priority on a task and a context, *)
(* and map_score_to_priority on a score (in tenths).                       *)
(***************************************************************************)
MaxProbeScore == 200

ProbeDifficulties == {"easy", "medium", "hard", "HARD", "extreme", Absent}

ProbeUrgencies == {UInt(0), UInt(3), UInt(9), UStr(2), UAbsent}

ProbeDeadlines == {DNone, DBad, DDay(-10), DDay(0), DDate(30)}

ProbeGrid ==
    {Task("p", difficulty, urgency, deadline) :
        difficulty \in ProbeDifficulties, urgency \in ProbeUrgencies,
        deadline \in ProbeDeadlines}

ProbeTasks == UNION {Range(b) : b \in BaseBatches} \cup ProbeGrid

ProbeContexts ==
    Contexts \cup {Ctx(Null), Ctx(""), Ctx("Focused"), Ctx("sad"), Ctx("happy")}

ProbeScore(task, context) ==
    /\ probe' = LET h == heuristic_priority(prioritizer, task, context, now)
                IN  [op |-> "heuristic_priority", task |-> task, context |-> context,
                     clock |-> now, score |-> h.score, label |-> h.label,
                     error |-> h.error]
    /\ UNCHANGED <<scheduler, prioritizer, now, rng, frames>>

ProbeMap(score) ==
    /\ probe' = [NoProbe EXCEPT !.op = "map_score_to_priority", !.score = score,
                                !.label = map_score_to_priority(prioritizer, score)]
    /\ UNCHANGED <<scheduler, prioritizer, now, rng, frames>>

NextScorer ==
    \/ \E task \in ProbeTasks, context \in ProbeContexts :
          probe.op = "none" /\ ProbeScore(task, context)
    \/ \E score \in (0 - MaxProbeScore)..MaxProbeScore :
          probe.op = "none" /\ ProbeMap(score)
    \/ Tick /\ UNCHANGED rng

InitScorer ==
    /\ Init
    /\ scheduler = Scheduler(MaxPop, MaxGen)

SpecScorer == InitScorer /\ [][NextScorer]_vars

(***************************************************************************)
(* _fitness called directly on a chromosome of a batch that optimize has   *)
(* scored at the current clock.                                            *)
(***************************************************************************)
Chromosomes(n) ==
    {c \in [1..n -> 0..(n - 1)] : \A a, b \in 1..n : c[a] = c[b] => a = b}

FitnessBatches ==
    {b \in Batches \cup {Take(<<TaskC, TaskI, TaskA>>, n) : n \in 1..MaxTasks}
                    \cup {Take(<<TaskD, TaskJ, TaskA>>, n) : n \in 1..MaxTasks} :
        b # <<>> /\ \A k \in DOMAIN b : heuristic_priority(DefaultPrioritizer, b[k], NoContext, 0).ok
                                        /\ b[k].difficulty # Null}

ProbeFitness(tasks, context, chromosome) ==
    /\ probe' = LET base_metrics == metrics_of(prioritizer, tasks, context, now)
                IN  [op |-> "_fitness", tasks |-> tasks, context |-> context,
                     clock |-> now, chromosome |-> chromosome,
                     base_metrics |-> base_metrics,
                     value |-> fitness(chromosome, tasks, base_metrics, context, now)]
    /\ UNCHANGED <<scheduler, prioritizer, now, rng, frames>>

NextFitness ==
    \/ \E tasks \in FitnessBatches, context \in ProbeContexts :
          \E chromosome \in Chromosomes(Len(tasks)) :
             probe.op = "none" /\ ProbeFitness(tasks, context, chromosome)
    \/ Tick /\ UNCHANGED rng

SpecFitness == InitScorer /\ [][NextFitness]_vars

(***************************************************************************)
(* The genetic operators called directly on parent permutations, with the  *)
(* generator output r.  The probe records what the random module returned: *)
(* the value of random.random() and the sorted sample of two positions.    *)
(***************************************************************************)
ProbeCrossover(parent1, parent2, r) ==
    /\ probe' = LET c == crossover(scheduler, parent1, parent2, r)
                IN  [op |-> "_crossover", parent1 |-> parent1, parent2 |-> parent2,
                     random |-> random_random(r),
                     cut |-> IF Len(parent1) < 2 THEN <<0, 0>>
                             ELSE cut_points(Len(parent1), r \div Len(RandomValues)),
                     child |-> c.value, error |-> c.error,
                     object |-> IF c.ok THEN crossover_object(scheduler, parent1, parent2, r)
                                ELSE "none"]
    /\ UNCHANGED <<scheduler, prioritizer, now, rng, frames>>

ProbeMutate(chromosome, r) ==
    /\ probe' = LET m == mutate(scheduler, chromosome, r)
                IN  [op |-> "_mutate", chromosome |-> chromosome,
                     random |-> random_random(r),
                     child |-> m.value, error |-> m.error,
                     object |-> IF m.ok THEN mutate_object(scheduler, chromosome, r)
                                ELSE "none"]
    /\ UNCHANGED <<scheduler, prioritizer, now, rng, frames>>

ProbeTournament(scored_population, r) ==
    /\ probe' = [op |-> "_tournament_select", scored_population |-> scored_population,
                 contenders |-> tournament_contenders(scored_population, r),
                 selected |-> tournament_select(scored_population, r),
                 object |-> tournament_select_object(scored_population, r)]
    /\ UNCHANGED <<scheduler, prioritizer, now, rng, frames>>

\* the largest ranked population handed to _tournament_select directly
MaxRanked == 12

\* a ranked population of distinct chromosomes of MaxTasks + 1 tasks whose
\* fitness falls by one after every run of `run` ranks
RankedPopulation(size, run) ==
    [k \in 1..size |->
        <<100 * (size - ((k - 1) \div run)), random_shuffle(RangeList(MaxTasks + 1), k - 1)>>]

NextOperators ==
    \/ \E n \in 1..MaxTasks : \E parent1, parent2 \in Chromosomes(n) :
          \E r \in 0..(Len(RandomValues) * Max2(1, Arrangements(n, 2)) - 1) :
             probe.op = "none" /\ ProbeCrossover(parent1, parent2, r)
    \/ \E n \in 1..MaxTasks : \E chromosome \in Chromosomes(n) :
          \E r \in 0..(Len(RandomValues) * Max2(1, Arrangements(n, 2)) - 1) :
             probe.op = "none" /\ ProbeMutate(chromosome, r)
    \/ \E size \in 1..MaxRanked, run \in {1, 2, MaxRanked} :
          LET ranked == RankedPopulation(size, run)
              pool == tournament_pool(ranked)
          IN  \E r \in 0..(Arrangements(Len(pool), Min2(Len(pool), 3)) - 1) :
                 probe.op = "none" /\ ProbeTournament(ranked, r)

SpecOperators == InitScorer /\ [][NextOperators]_vars

(***************************************************************************)
(* The generator made explicit.  random is one process-wide generator: its *)
(* output is a fixed stream (of period StreamLen here) chosen by the seed, *)
(* and rng.global is how far the process has read it.  Invocations 1 and 2 *)
(* run in the process and read at rng.global.  Invocation 3 is the         *)
(* reference run: the call of invocation 1 repeated alone, on a fresh      *)
(* scheduler, reading the same stream at rng.private from the position     *)
(* where invocation 1 started.                                             *)
(***************************************************************************)
RawMax == 6

Streams == [1..StreamLen -> 0..(RawMax - 1)]

SeededBatches == {Take(<<TaskB, TaskC, TaskA, TaskE>>, n) : n \in 1..MaxTasks}

SeededContexts == {NoContext, Ctx("TIRED")}

SeededInit(schedulers) ==
    /\ scheduler \in schedulers
    /\ prioritizer = DefaultPrioritizer
    /\ now = 0
    /\ rng \in {[stream |-> st, global |-> 0, private |-> 0] : st \in Streams}
    /\ frames = [i \in Invocations |-> IdleFrame]
    /\ probe = NoProbe

InitSeeded == SeededInit({Scheduler(1, 1), Scheduler(MaxPop, MaxGen)})

InitConcurrent == SeededInit({Scheduler(MaxPop, 1)})

\* the next output of the generator read at position pos
Output(pos) == rng.stream[pos + 1]

Advance(pos) == (pos + 1) % StreamLen

\* a step of invocation i in the process, on the shared generator
DrawGlobal(i) ==
    /\ Draw(i, Output(rng.global))
    /\ rng' = [rng EXCEPT !.global = Advance(rng.global)]

\* a step of the reference run, on its own copy of the generator
DrawPrivate ==
    /\ Draw(3, Output(rng.private))
    /\ rng' = [rng EXCEPT !.private = Advance(rng.private)]

\* random.seed(s); scheduler.optimize(tasks, context): the reference starts over
SeedAndCall(tasks, context) ==
    /\ ~Running(frames[1])
    /\ frames' = [frames EXCEPT
                    ![1] = call_frame(frames[1], scheduler, prioritizer, tasks, context, now),
                    ![3] = IdleFrame]
    /\ rng' = [rng EXCEPT !.global = 0, !.private = 0]
    /\ UNCHANGED <<scheduler, prioritizer, now, probe>>

\* scheduler.optimize(tasks, context) by invocation i of the running process
CallInProcess(i, tasks, context) ==
    /\ frames[i].pc = "idle"
    /\ frames' = [frames EXCEPT
                    ![i] = call_frame(frames[i], scheduler, prioritizer, tasks, context, now)]
    /\ rng' = IF i = 1 THEN [rng EXCEPT !.private = rng.global] ELSE rng
    /\ UNCHANGED <<scheduler, prioritizer, now, probe>>

\* the reference run of the call of invocation 1
ReferenceCall ==
    /\ \A i \in {1, 2} : ~Running(frames[i])
    /\ frames[1].pc # "idle"
    /\ frames[3].pc = "idle"
    /\ frames' = [frames EXCEPT
                    ![3] = call_frame(IdleFrame, scheduler, prioritizer,
                                      frames[1].tasks, frames[1].context, now)]
    /\ UNCHANGED <<scheduler, prioritizer, now, probe, rng>>

NextSeeded ==
    \/ \E tasks \in SeededBatches, context \in SeededContexts : SeedAndCall(tasks, context)
    \/ DrawGlobal(1)
    \/ Step(1) /\ UNCHANGED rng
    \/ ReferenceCall
    \/ DrawPrivate
    \/ Step(3) /\ UNCHANGED rng

SpecSeeded == InitSeeded /\ [][NextSeeded]_vars

NextConcurrent ==
    \/ \E tasks \in SeededBatches : CallInProcess(1, tasks, Ctx("TIRED"))
    \/ CallInProcess(2, <<TaskD, TaskA>>, NoContext)
    \/ \E i \in {1, 2} : DrawGlobal(i)
    \/ \E i \in {1, 2} : Step(i) /\ UNCHANGED rng
    \/ frames[2].pc # "idle" /\ ReferenceCall
    \/ DrawPrivate
    \/ Step(3) /\ UNCHANGED rng

SpecConcurrent == InitConcurrent /\ [][NextConcurrent]_vars

(***************************************************************************)
(* Properties.                                                             *)
(***************************************************************************)
Done(i) == frames[i].pc = "done"

\* every field of the task has a value the scorer accepts
WellFormed(task) ==
    /\ task.urgency.t \in {Absent, "int", "numstr"}
    /\ task.difficulty # Null

IdsOf(entries) == [k \in DOMAIN entries |-> entries[k].id]

Occurrences(s, x) == Cardinality({k \in DOMAIN s : s[k] = x})

MaxOf(s) == CHOOSE x \in Range(s) : \A y \in Range(s) : x >= y

\* C1: whenever optimize returns, the schedule has the length of the input batch
\* and every input task id occurs in it exactly once.
C1_SchedulePermutation ==
    \A i \in Invocations :
        Done(i) =>
            /\ Len(frames[i].result.schedule) = Len(frames[i].tasks)
            /\ \A k \in DOMAIN frames[i].tasks :
                  Occurrences(IdsOf(frames[i].result.schedule), frames[i].tasks[k].id) = 1

\* a run of three tasks whose returned order was bred in the second generation
C1_Witness ==
    /\ Done(1)
    /\ Len(frames[1].tasks) = 3
    /\ frames[1].result.metadata.evaluatedGenerations = 2
    /\ IdsOf(frames[1].result.schedule) # IdsOf(frames[1].tasks)

\* C2: for a batch of exactly one (well-formed) task optimize does not raise, and
\* when it returns the schedule has one entry with gaRank 1 and fitnessHistory has
\* `generations` entries.
C2_SingleTaskCompletes ==
    \A i \in Invocations :
        (Len(frames[i].tasks) = 1 /\ WellFormed(frames[i].tasks[1])) =>
            /\ frames[i].pc # "raised"
            /\ Done(i) =>
                  /\ Len(frames[i].result.schedule) = 1
                  /\ frames[i].result.schedule[1].gaRank = 1
                  /\ Len(frames[i].result.metadata.fitnessHistory) = scheduler.generations

\* C3: no task data makes optimize raise: a batch of two or more tasks, whatever
\* its urgency, difficulty, deadline and mood values, never ends in an exception.
C3_NoInputRaises ==
    \A i \in Invocations :
        Len(frames[i].tasks) >= 2 => frames[i].pc # "raised"

\* C4: optimize on an empty list returns an empty schedule with metadata
\* fitness 0, evaluatedGenerations 0 and prioritySummary high 0, medium 0, low 0.
C4_EmptyResult ==
    \A i \in Invocations :
        (Done(i) /\ frames[i].tasks = <<>>) =>
            /\ frames[i].result.schedule = <<>>
            /\ frames[i].result.metadata.fitness = 0
            /\ "evaluatedGenerations" \in DOMAIN frames[i].result.metadata
            /\ frames[i].result.metadata.evaluatedGenerations = 0
            /\ frames[i].result.metadata.prioritySummary = [l \in Labels |-> 0]

\* C7: within one run the remembered best fitness never decreases from one step
\* (hence one generation) to the next.
C7_BestFitnessMonotonic ==
    [][\A i \in Invocations :
          Running(frames[i]) => frames'[i].best_fitness >= frames[i].best_fitness]_vars

\* a later generation whose top fitness is below the remembered best
C7_Witness ==
    /\ Running(frames[1])
    /\ frames[1].best_generation = 1
    /\ Len(frames[1].fitness_history) = 2
    /\ frames[1].fitness_history[2] < frames[1].best_fitness

\* the first generation (counted from 1) whose top fitness is the maximum
EarliestMax(history) ==
    CHOOSE k \in DOMAIN history :
        /\ history[k] = MaxOf(history)
        /\ \A j \in DOMAIN history : history[j] = MaxOf(history) => k <= j

\* the remembered best is the top of the ranked generation that set it, and no
\* later top exceeds it
BestIsObserved(f) ==
    f.scored_population # <<>> =>
        /\ f.best_generation = f.generation + 1 =>
              /\ f.best_fitness = f.scored_population[1][1]
              /\ f.best_chromosome = f.scored_population[1][2]
        /\ f.scored_population[1][1] <= f.best_fitness

\* the returned metadata and order are the remembered best
BestIsEmitted(f) ==
    (f.pc = "done" /\ f.fitness_history # <<>>) =>
        /\ f.result.metadata.fitness = MaxOf(f.result.metadata.fitnessHistory)
        /\ f.result.metadata.evaluatedGenerations
              = EarliestMax(f.result.metadata.fitnessHistory)
        /\ IdsOf(f.result.schedule)
              = [k \in DOMAIN f.best_chromosome |-> f.tasks[f.best_chromosome[k] + 1].id]

\* C8: after the last generation the emitted order is the best chromosome ever
\* observed: the remembered chromosome is the top of the generation that set the
\* remembered fitness and changes only when that fitness strictly increases;
\* metadata.fitness is the maximum of fitnessHistory and evaluatedGenerations is
\* the earliest generation that reached it.
C8_EmitsEarliestBest ==
    /\ [](\A i \in Invocations : BestIsObserved(frames[i]) /\ BestIsEmitted(frames[i]))
    /\ [][\A i \in Invocations :
             (Running(frames[i]) /\ frames[i].best_chromosome # frames'[i].best_chromosome)
                => \/ frames'[i].best_fitness > frames[i].best_fitness
                   \/ (frames[i].pc = "finish" /\ frames[i].fitness_history = <<>>)]_vars

\* a returned run whose best was found in generation 1 and tied in generation 2
C8_Witness ==
    /\ Done(1)
    /\ Len(frames[1].tasks) = 3
    /\ frames[1].result.metadata.evaluatedGenerations = 1
    /\ Len(frames[1].result.metadata.fitnessHistory) = 2
    /\ frames[1].result.metadata.fitnessHistory[2] = frames[1].result.metadata.fitness
    /\ IdsOf(frames[1].result.schedule) # IdsOf(frames[1].tasks)

\* C9: for a non-empty batch (of well-formed tasks) optimize never raises, and it
\* returns with exactly `generations` entries in fitnessHistory.
C9_RunsAllGenerations ==
    \A i \in Invocations :
        (frames[i].tasks # <<>> /\ \A k \in DOMAIN frames[i].tasks : WellFormed(frames[i].tasks[k])) =>
            /\ frames[i].pc # "raised"
            /\ Done(i) =>
                  Len(frames[i].result.metadata.fitnessHistory) = scheduler.generations

\* C10: map_score_to_priority gives high exactly for scores >= 18.0, medium
\* exactly for 10.0 <= score < 18.0 and low otherwise (scores in tenths).
C10_ThresholdMapping ==
    probe.op = "map_score_to_priority" =>
        /\ probe.label = "high" <=> probe.score >= 180
        /\ probe.label = "medium" <=> (100 <= probe.score /\ probe.score < 180)
        /\ probe.label = "low" <=> probe.score < 100

\* the score exactly on the high threshold
C10_Witness ==
    /\ probe.op = "map_score_to_priority"
    /\ probe.score = 180
    /\ probe.label = "high"

\* C11: with mood okay or focused (in any letter case) and difficulty medium,
\* heuristic_priority returns label high and a score of at least 18.0, whatever
\* the (integer) urgency and the deadline of the task.
C11_MoodElevatesMedium ==
    ( /\ probe.op = "heuristic_priority"
      /\ probe.context.present
      /\ mood_of(probe.context) \in {"okay", "focused"}
      /\ difficulty_of(probe.task) = "medium"
      /\ probe.task.urgency.t \in {Absent, "int", "numstr"} ) =>
        /\ probe.error = "none"
        /\ probe.label = "high"
        /\ probe.score >= 180

\* {difficulty: medium, urgency: 3, deadline: null}, whose weighted sum is
\* 5*3 - 2*7 + 2 = 3.0, scored high under mood "Okay"
C11_Witness ==
    /\ probe.op = "heuristic_priority"
    /\ probe.task = TaskA
    /\ probe.context = Ctx("Okay")
    /\ probe.label = "high"
    /\ probe.score = 180

\* the reference score of the scorer, in tenths
RefClamp(x, lo, hi) == IF x < lo THEN lo ELSE IF x > hi THEN hi ELSE x

RefUrgency(task) == IF task.urgency.t = Absent THEN 3 ELSE task.urgency.v

RefDays(task, clock) ==
    IF task.deadline.t \in {"iso", "datetime"}
    THEN RefClamp(task.deadline.v - clock, -7, 21)
    ELSE 7

RefDifficulty(task) ==
    IF task.difficulty \in {"easy", "medium", "hard"} THEN task.difficulty ELSE "medium"

RefMood(context) ==
    IF ~context.present \/ context.mood \in {Absent, Null} THEN "" ELSE Lower(context.mood)

RefWeighted(task, clock) ==
    50 * (6 - RefClamp(RefUrgency(task), 1, 5))
    - 20 * RefDays(task, clock)
    + 10 * (CASE RefDifficulty(task) = "easy" -> 1
              [] RefDifficulty(task) = "hard" -> 3
              [] OTHER -> 2)

RefScore(task, context, clock) ==
    LET raw == RefWeighted(task, clock) IN
    IF RefMood(context) \in {"okay", "focused"} /\ RefDifficulty(task) = "medium"
    THEN (IF raw < 180 THEN 180 ELSE raw)
    ELSE IF RefMood(context) \in {"sad", "very_sad", "tired"} /\ RefDifficulty(task) = "hard"
    THEN raw - 40
    ELSE raw

\* C12: for every task (with a parseable urgency and a string difficulty) and
\* every context, calculate_priority_score returns the reference score:
\* 5*(6 - clamp(urgency,1,5)) - 2*daysRemaining + difficultyScore, raised to at
\* least 18 for mood okay/focused with medium difficulty, lowered by 4 for mood
\* sad/very_sad/tired with hard difficulty, unchanged otherwise; a difficulty
\* other than easy, medium, hard counts as medium.
C12_ReferenceScore ==
    (probe.op = "heuristic_priority" /\ WellFormed(probe.task)) =>
        /\ probe.error = "none"
        /\ probe.score = RefScore(probe.task, probe.context, probe.clock)

\* C14: a task whose difficulty is not easy, medium or hard gets the heuristic
\* score, the label and the mood bonus at every position of the same task with
\* difficulty medium, in every context.
C14_UnknownDifficultyIsMedium ==
    ( /\ probe.op = "heuristic_priority"
      /\ WellFormed(probe.task)
      /\ probe.task.difficulty \notin {"easy", "medium", "hard"} ) =>
        LET as_medium == [probe.task EXCEPT !.difficulty = "medium"]
            h == heuristic_priority(prioritizer, as_medium, probe.context, probe.clock)
        IN  /\ probe.error = "none"
            /\ probe.score = h.score
            /\ probe.label = h.label
            /\ \A position \in 0..(MaxTasks - 1) :
                  mood_bonus(probe.task, probe.context, position, MaxTasks)
                     = mood_bonus(as_medium, probe.context, position, MaxTasks)

\* the batch with the deadline of the task at (1-based) index k moved to `left`
\* days after the clock
OnTime(tasks, k, clock, left) ==
    [tasks EXCEPT ![k] = [@ EXCEPT !.deadline = DDay(clock + left)]]

\* how many days the task is overdue at the clock, 0 when it is not
Overdue(task, clock) ==
    IF task.deadline.t \in {"iso", "datetime"} /\ task.deadline.v < clock
    THEN clock - task.deadline.v
    ELSE 0

\* C13: _fitness charges an overdue task exactly 5 * |daysRemaining| (15 for 3
\* days), with no upper bound, compared with the same task at the same position
\* with 3 to 7 days left, the metrics and everything else being equal
\* (fitness in hundredths).
C13_OverduePenalty ==
    probe.op = "_fitness" =>
        \A k \in DOMAIN probe.chromosome :
            LET idx == probe.chromosome[k] + 1
                late == Overdue(probe.tasks[idx], probe.clock)
            IN  late > 0 =>
                  \A left \in 3..7 :
                     fitness(probe.chromosome, OnTime(probe.tasks, idx, probe.clock, left),
                             probe.base_metrics, probe.context, probe.clock)
                       - probe.value = 500 * late

\* a task 3 days overdue charged 15, next to a task 10 days overdue
C13_Witness ==
    /\ probe.op = "_fitness"
    /\ probe.clock = 0
    /\ probe.tasks = <<TaskC, TaskI>>
    /\ probe.chromosome = <<1, 0>>
    /\ fitness(probe.chromosome, OnTime(probe.tasks, 1, 0, 5),
               probe.base_metrics, probe.context, 0) - probe.value = 1500
    /\ fitness(probe.chromosome, OnTime(probe.tasks, 2, 0, 5),
               probe.base_metrics, probe.context, 0) - probe.value = 5000

DerivedFields == {"heuristicPriority", "heuristicScore", "gaRank"}

\* the input task of the schedule entry at (1-based) position k
InputOf(f, k) == f.tasks[f.best_chromosome[k] + 1]

\* optimize leaves the task list it was given as it is
TasksUntouched ==
    [][\A i \in Invocations : Running(frames[i]) => frames'[i].tasks = frames[i].tasks]_vars

\* every field of the input task is in the entry with the same value, and the
\* entry has the three derived fields besides
EntriesKeepFields(f) ==
    f.pc = "done" =>
        \A k \in DOMAIN f.result.schedule :
            LET entry == f.result.schedule[k]
                task == InputOf(f, k)
            IN  /\ DOMAIN entry = DOMAIN task \cup DerivedFields
                /\ \A field \in DOMAIN task : entry[field] = task[field]

\* as EntriesKeepFields, but a task key _id is moved to id and a datetime
\* deadline is its ISO string
EntriesNormaliseFields(f) ==
    f.pc = "done" =>
        \A k \in DOMAIN f.result.schedule :
            LET entry == f.result.schedule[k]
                task == InputOf(f, k)
            IN  /\ DOMAIN entry = DOMAIN task \cup DerivedFields
                /\ entry.id = (IF task._id # Absent THEN task._id ELSE task.id)
                /\ entry._id = Absent
                /\ entry.deadline = (IF task.deadline.t = "datetime"
                                     THEN DDay(task.deadline.v) ELSE task.deadline)
                /\ entry.difficulty = task.difficulty
                /\ entry.urgency = task.urgency

LabelOfReported(score) ==
    IF score >= 1800 THEN "high" ELSE IF score >= 1000 THEN "medium" ELSE "low"

\* C16: in every returned schedule the entry at 0-based position k has gaRank
\* k + 1, its heuristicPriority is the label the scorer gave its task (the label
\* of its heuristicScore), and prioritySummary counts the entries per label, so
\* that high + medium + low = N.
C16_RanksAndSummary ==
    \A i \in Invocations :
        Done(i) =>
            LET schedule == frames[i].result.schedule
                summary == frames[i].result.metadata.prioritySummary
            IN  /\ \A k \in DOMAIN schedule :
                      /\ schedule[k].gaRank = k
                      /\ schedule[k].heuristicPriority
                            = frames[i].base_metrics[frames[i].best_chromosome[k] + 1].label
                      /\ schedule[k].heuristicPriority
                            = LabelOfReported(schedule[k].heuristicScore)
                /\ DOMAIN summary = Labels
                /\ \A l \in Labels :
                      summary[l] = Cardinality({k \in DOMAIN schedule :
                                                  schedule[k].heuristicPriority = l})
                /\ summary["high"] + summary["medium"] + summary["low"] = Len(frames[i].tasks)

\* the same for a non-empty batch: ranks 1..N in order, labels of the scorer, and
\* a summary of three counts that add up to N
NonEmptyRanksAndSummary ==
    \A i \in Invocations :
        (Done(i) /\ frames[i].tasks # <<>>) =>
            LET schedule == frames[i].result.schedule
                summary == frames[i].result.metadata.prioritySummary
            IN  /\ \A k \in DOMAIN schedule :
                      /\ schedule[k].gaRank = k
                      /\ schedule[k].heuristicPriority
                            = LabelOfReported(schedule[k].heuristicScore)
                /\ DOMAIN summary = Labels
                /\ \A l \in Labels :
                      summary[l] = Cardinality({k \in DOMAIN schedule :
                                                  schedule[k].heuristicPriority = l})
                /\ summary["high"] + summary["medium"] + summary["low"] = Len(frames[i].tasks)

IsPermutation(chromosome, n) ==
    /\ Len(chromosome) = n
    /\ \A gene \in 0..(n - 1) : Occurrences(chromosome, gene) = 1

\* every chromosome the frame holds: the population, the ranked population, the
\* next population, the selected parents and the child
ChromosomesOf(f) ==
    Range(f.population) \cup {f.scored_population[k][2] : k \in DOMAIN f.scored_population}
    \cup Range(f.next_population)
    \cup ({f.parent1, f.parent2, f.child, f.best_chromosome} \ {<<>>})

\* C17: in every generation every chromosome of the population (initial shuffle,
\* carried elite, crossover child, mutated child) is a permutation of 0..N-1.
C17_ChromosomesArePermutations ==
    \A i \in Invocations :
        \A chromosome \in ChromosomesOf(frames[i]) :
            IsPermutation(chromosome, Len(frames[i].tasks))

\* the second generation of three tasks holds a child that is none of the seeds
\* of the first ranking's parents: it was crossed over or mutated
C17_Witness ==
    /\ frames[1].pc = "evaluate"
    /\ frames[1].generation = 1
    /\ Len(frames[1].tasks) = 3
    /\ Len(frames[1].population) = 3
    /\ frames[1].population[3] \notin {frames[1].population[1], frames[1].population[2]}
    /\ frames[1].population[3] # frames[1].heuristic_order

\* the order crossover of the reference: parent1 on [start, end), and on the other
\* positions, left to right, the genes of parent2 outside that slice in parent2's
\* order (start, end 0-based)
RefOrderCrossover(parent1, parent2, start, end) ==
    LET slice == {parent1[k] : k \in (start + 1)..end}
        Outside(gene) == gene \notin slice
        rest == SelectSeq(parent2, Outside)
        FreeUpTo(k) == Cardinality({j \in 1..k : j <= start \/ j > end})
    IN  [k \in 1..Len(parent1) |->
            IF start < k /\ k <= end THEN parent1[k] ELSE rest[FreeUpTo(k)]]

\* C18: when crossover is applied to parent permutations with cut points
\* start < end, the child is parent1 on [start, end) and holds on its other
\* positions, left to right, the genes of parent2 outside the slice in parent2's
\* order; when crossover is not applied the child equals parent1.
C18_OrderCrossover ==
    (probe.op = "_crossover" /\ Len(probe.parent1) >= 2) =>
        /\ probe.error = "none"
        /\ probe.random > scheduler.crossover_rate => probe.child = probe.parent1
        /\ probe.random <= scheduler.crossover_rate =>
              /\ probe.cut[1] < probe.cut[2]
              /\ probe.child = RefOrderCrossover(probe.parent1, probe.parent2,
                                                 probe.cut[1], probe.cut[2])

\* a crossover of <<0,1,2>> and <<1,2,0>> with the slice [1, 2): the child
\* <<2,1,0>> is neither parent
C18_Witness ==
    /\ probe.op = "_crossover"
    /\ probe.parent1 = <<0, 1, 2>>
    /\ probe.parent2 = <<1, 2, 0>>
    /\ probe.random <= scheduler.crossover_rate
    /\ probe.cut = <<1, 2>>
    /\ probe.child = <<2, 1, 0>>

\* max(2, populationSize / 5) with integer division
EliteNumber(population_size) ==
    IF population_size \div 5 > 2 THEN population_size \div 5 ELSE 2

ChromosomesIn(scored) == [k \in DOMAIN scored |-> scored[k][2]]

SameChromosomes(a, b) ==
    /\ Len(a) = Len(b)
    /\ \A c \in Range(a) \cup Range(b) : Occurrences(a, c) = Occurrences(b, c)

\* the chromosomes of `ranked` are those of `population`, best fitness first
RanksPopulation(ranked, population, f, clock) ==
    /\ SameChromosomes(ranked, population)
    /\ \A k, l \in DOMAIN ranked :
          k < l => fitness(ranked[k], f.tasks, f.base_metrics, f.context, clock)
                     >= fitness(ranked[l], f.tasks, f.base_metrics, f.context, clock)

\* one step of invocation i keeps to elitism
ElitesCarried(i) ==
    LET f == frames[i]
        g == frames'[i]
        n == EliteNumber(scheduler.population_size)
    IN  /\ (f.pc = "evaluate" /\ g.pc = "select1") =>
              /\ RanksPopulation(ChromosomesIn(g.scored_population), f.population, f, now)
              /\ g.next_population = Take(ChromosomesIn(g.scored_population), n)
              /\ Len(g.next_population) = Min2(n, Len(f.population))
        /\ (f.pc \in {"select1", "select2", "crossover", "mutate"} /\ g.pc # "raised") =>
              /\ g.scored_population \in {f.scored_population, <<>>}
              /\ g.generation = f.generation =>
                    Take(g.next_population, n) = Take(f.next_population, n)
              /\ g.generation = f.generation + 1 =>
                    Take(g.population, n) = Take(ChromosomesIn(f.scored_population), n)
        /\ (f.pc = "evaluate" /\ g.generation = f.generation + 1) =>
              /\ Len(f.population) <= n
              /\ RanksPopulation(g.population, f.population, f, now)

\* C19: at each generation change the top max(2, populationSize / 5)
\* chromosomes of the ranked current population are, unchanged and in rank
\* order, the first chromosomes of the next population.
C19_ElitesCarried ==
    [][\A i \in Invocations : ElitesCarried(i)]_vars

\* a population of 15 entered its second generation with 3 elites in front
C19_Witness ==
    /\ scheduler.population_size = BigPop
    /\ frames[1].pc = "select1"
    /\ frames[1].generation = 1
    /\ Len(frames[1].next_population) = 3

NonDecreasing(history) ==
    \A k, l \in DOMAIN history : k < l => history[k] <= history[l]

\* C20: with the clock held fixed during a run, the top fitness recorded per
\* generation in fitnessHistory never decreases, so its last entry equals
\* metadata.fitness.
C20_HistoryNonDecreasing ==
    \A i \in Invocations :
        /\ NonDecreasing(frames[i].fitness_history)
        /\ (Done(i) /\ frames[i].fitness_history # <<>>) =>
              /\ frames[i].result.metadata.fitnessHistory = frames[i].fitness_history
              /\ frames[i].result.metadata.fitness
                    = frames[i].fitness_history[Len(frames[i].fitness_history)]

\* a returned run whose second generation improved on the first
C20_Witness ==
    /\ Done(1)
    /\ frames[1].tasks # <<>>
    /\ Len(frames[1].result.metadata.fitnessHistory) = 2
    /\ frames[1].result.metadata.fitnessHistory[2] > frames[1].result.metadata.fitnessHistory[1]
    /\ frames[1].result.metadata.fitness = frames[1].result.metadata.fitnessHistory[2]

\* the size of the best-ranked half of a population, at least 5, or of the
\* whole population when it is smaller
RefPoolSize(size) == IF size < 5 THEN size ELSE Max2(5, size \div 2)

\* C21: tournament selection returns a copy of the fittest of min(poolSize, 3)
\* distinct contenders drawn from the pool, the best-ranked half of the ranked
\* population (at least 5, or all of it when it is smaller), and never the
\* chromosome of a rank outside the pool.
C21_TournamentSelection ==
    probe.op = "_tournament_select" =>
        LET ranked == probe.scored_population
            pool == Take(ranked, RefPoolSize(Len(ranked)))
            contenders == probe.contenders
        IN  /\ Len(contenders) = Min2(Len(pool), 3)
            /\ \A a \in DOMAIN contenders : contenders[a] \in Range(pool)
            /\ \A a, b \in DOMAIN contenders : contenders[a] = contenders[b] => a = b
            /\ \E a \in DOMAIN contenders :
                  /\ probe.selected = contenders[a][2]
                  /\ \A b \in DOMAIN contenders : contenders[a][1] >= contenders[b][1]
            /\ \A k \in DOMAIN ranked : k > Len(pool) => probe.selected # ranked[k][2]
            /\ probe.object = "new"

\* the lowest rank of a pool that is half of the population wins a tournament
C21_Witness ==
    /\ probe.op = "_tournament_select"
    /\ Len(probe.scored_population) > 11
    /\ probe.selected = probe.scored_population[Len(probe.scored_population) \div 2][2]
    /\ probe.selected # probe.scored_population[1][2]

\* order lists the task indices by descending score, equal scores in input order
RefHeuristicOrder(order, base_metrics) ==
    /\ IsPermutation(order, Len(base_metrics))
    /\ \A a, b \in DOMAIN order :
          a < b => \/ base_metrics[order[a] + 1].score > base_metrics[order[b] + 1].score
                   \/ /\ base_metrics[order[a] + 1].score = base_metrics[order[b] + 1].score
                      /\ order[a] < order[b]

\* the population of f is still the initial one
InitialPopulation(f) ==
    f.generation = 0 /\ f.pc \in {"seed", "evaluate", "finish"}

\* C22: the first chromosome of the initial population is heuristicOrder, the
\* task indices by descending heuristic score with equal scores in input
\* order; each of the other populationSize - 1 chromosomes is a shuffle of a
\* copy of it, and heuristicOrder itself stays as it was sorted.
C22_InitialPopulation ==
    LET f == frames[1] IN
    Running(f) =>
        /\ RefHeuristicOrder(f.heuristic_order, f.base_metrics)
        /\ InitialPopulation(f) =>
              /\ f.population[1] = f.heuristic_order
              /\ \A k \in DOMAIN f.population : IsPermutation(f.population[k], Len(f.tasks))
              /\ Len(f.population) <= scheduler.population_size
              /\ f.pc # "seed" => Len(f.population) = scheduler.population_size

\* two tasks of equal score are seeded in input order, next to a shuffle
\* that reverses them
C22_Witness ==
    LET f == frames[1] IN
    /\ f.pc = "evaluate" /\ f.generation = 0
    /\ Len(f.tasks) = 2
    /\ f.base_metrics[1].score = f.base_metrics[2].score
    /\ f.heuristic_order = <<0, 1>>
    /\ Len(f.population) = 3
    /\ f.population[1] = <<0, 1>>
    /\ f.population[2] = <<1, 0>>

\* C23: at the start of every generation, and when the loop has ended, the
\* population holds exactly populationSize chromosomes; while the next
\* population is bred it holds fewer.
C23_PopulationSize ==
    LET f == frames[1] IN
    /\ f.pc \in {"evaluate", "finish"} => Len(f.population) = scheduler.population_size
    /\ f.pc \in {"select1", "select2", "crossover", "mutate"} =>
          Len(f.next_population) < scheduler.population_size

\* the second generation starts with a population of BigPop chromosomes
C23_Witness ==
    LET f == frames[1] IN
    /\ f.pc = "evaluate" /\ f.generation = 1
    /\ scheduler.population_size > MaxPop
    /\ Len(f.population) = scheduler.population_size

OperatorProbes == {"_tournament_select", "_crossover", "_mutate"}

\* C24: no genetic operator returns a list that shares storage with its
\* input: selection, crossover and mutation each return a new permutation
\* (which is why breeding leaves the ranked population and the remembered
\* best chromosome as they were).
C24_OperatorsReturnNewLists ==
    probe.op \in OperatorProbes /\ probe.object # "none" =>
        /\ probe.object = "new"
        /\ probe.op = "_tournament_select" =>
              IsPermutation(probe.selected, Len(probe.scored_population[1][2]))
        /\ probe.op = "_crossover" => IsPermutation(probe.child, Len(probe.parent1))
        /\ probe.op = "_mutate" => IsPermutation(probe.child, Len(probe.chromosome))

\* the one list an operator hands back is the argument of a _mutate that did
\* not mutate; selection and crossover return new lists
OnlyUnmutatedIsShared ==
    probe.op \in OperatorProbes /\ probe.object = "argument" =>
        /\ probe.op = "_mutate"
        /\ probe.random > scheduler.mutation_rate
        /\ probe.child = probe.chromosome

\* the deadline adjustment of the reference, d being the unclamped days left
RefDeadlineAdjustment(task, clock) ==
    IF task.deadline.t \notin {"iso", "datetime"} THEN 0
    ELSE LET d == task.deadline.v - clock
         IN  IF d < 0 THEN 0 - 500 * Abs(d)
             ELSE IF d <= 2 THEN 200
             ELSE IF d > 7 THEN 0 - 50
             ELSE 0

\* the mood bonus of the reference at 0-based position p of n
RefMoodBonus(task, context, p, n) ==
    IF RefMood(context) \in {"focused", "okay", "energetic"}
       /\ RefDifficulty(task) \in {"hard", "medium"}
    THEN 50 * (n - p)
    ELSE IF RefMood(context) \in {"sad", "very_sad", "tired"} /\ RefDifficulty(task) = "hard"
    THEN 0 - 100 * (p + 1)
    ELSE 0

\* the reference sum over the first k positions, in hundredths
RECURSIVE RefFitness(_, _, _, _, _, _)
RefFitness(chromosome, k, tasks, base_metrics, context, clock) ==
    IF k = 0 THEN 0
    ELSE LET p == k - 1
             i == chromosome[k] + 1
             n == Len(chromosome)
         IN  RefFitness(chromosome, k - 1, tasks, base_metrics, context, clock)
             + 100 * base_metrics[i].weight * (n - p)
             + base_metrics[i].score
             + RefDeadlineAdjustment(tasks[i], clock)
             + RefMoodBonus(tasks[i], context, p, n)

\* C25: for every chromosome _fitness equals the reference sum over positions
\* p (holding task i) of weight[i]*(N-p) + 0.1*heuristicScore[i], plus the
\* deadline adjustment (-5*|d| if d < 0, +2 if 0 <= d <= 2, -0.5 if d > 7,
\* none otherwise or without a parseable deadline), plus the mood bonus
\* (+0.5*(N-p) for mood focused/okay/energetic with difficulty hard or medium,
\* -(p+1) for mood sad/very_sad/tired with difficulty hard, else 0).
C25_ReferenceFitness ==
    probe.op = "_fitness" =>
        probe.value = RefFitness(probe.chromosome, Len(probe.chromosome), probe.tasks,
                                 probe.base_metrics, probe.context, probe.clock)

\* _fitness equals the reference on every batch whose difficulties are all
\* easy, medium, hard or absent
ReferenceFitnessOnKnownDifficulties ==
    (/\ probe.op = "_fitness"
     /\ \A k \in DOMAIN probe.tasks :
           probe.tasks[k].difficulty \in {"easy", "medium", "hard", Absent}) =>
        probe.value = RefFitness(probe.chromosome, Len(probe.chromosome), probe.tasks,
                                 probe.base_metrics, probe.context, probe.clock)

\* C26: optimize and the scorer only read the configuration: no step of a
\* call changes the scheduler's populationSize, generations, crossoverRate or
\* mutationRate, or the prioritizer's weights or thresholds.
C26_ConfigurationReadOnly ==
    [][scheduler' = scheduler /\ prioritizer' = prioritizer]_vars

\* a call has run all its generations on two tasks or more and returned, and
\* the configuration is the constructed one
C26_Witness ==
    /\ Done(1)
    /\ Len(frames[1].tasks) >= 2
    /\ scheduler.generations > 0
    /\ Len(frames[1].result.metadata.fitnessHistory) = scheduler.generations
    /\ scheduler = Scheduler(scheduler.population_size, scheduler.generations)
    /\ prioritizer = DefaultPrioritizer

\* the context carries no mood
NoMood(context) == RefMood(context) = ""

\* C27: when the context mood is empty or absent (scores and fitness being
\* exact decimals, the clock fixed), heuristicOrder attains the maximum fitness
\* over all permutations of the batch; so for a batch of two tasks or more and
\* any random draws optimize returns exactly heuristicOrder,
\* evaluatedGenerations is 1 and all entries of fitnessHistory are equal.
C27_HeuristicOrderIsOptimal ==
    LET f == frames[1] IN
    /\ (Running(f) /\ NoMood(f.context)) =>
          \A q \in Chromosomes(Len(f.tasks)) :
             fitness(q, f.tasks, f.base_metrics, f.context, now)
                <= fitness(f.heuristic_order, f.tasks, f.base_metrics, f.context, now)
    /\ (Done(1) /\ Len(f.tasks) >= 2 /\ NoMood(f.context)) =>
          /\ RefHeuristicOrder(f.best_chromosome, f.base_metrics)
          /\ \A k \in DOMAIN f.result.schedule :
                /\ f.result.schedule[k].id = f.tasks[f.best_chromosome[k] + 1].id
                /\ f.result.schedule[k].gaRank = k
          /\ f.result.metadata.evaluatedGenerations = 1
          /\ \A a, b \in DOMAIN f.result.metadata.fitnessHistory :
                f.result.metadata.fitnessHistory[a] = f.result.metadata.fitnessHistory[b]

\* three tasks of different labels come back in the heuristic order, which is
\* not their input order, after MaxGen generations of a population of MaxPop
C27_Witness ==
    LET f == frames[1] IN
    /\ Done(1) /\ Len(f.tasks) = 3 /\ NoMood(f.context)
    /\ scheduler.population_size = MaxPop
    /\ Len(f.result.metadata.fitnessHistory) = MaxGen
    /\ \E a, b \in DOMAIN f.base_metrics : f.base_metrics[a].weight # f.base_metrics[b].weight
    /\ f.best_chromosome # <<0, 1, 2>>
    /\ f.result.metadata.evaluatedGenerations = 1

\* the label-weight and mood-bonus terms of an ordering, in hundredths
RECURSIVE WeightAndMood(_, _, _, _, _)
WeightAndMood(chromosome, k, tasks, base_metrics, context) ==
    IF k = 0 THEN 0
    ELSE WeightAndMood(chromosome, k - 1, tasks, base_metrics, context)
         + 100 * base_metrics[chromosome[k] + 1].weight * (Len(chromosome) - (k - 1))
         + mood_bonus(tasks[chromosome[k] + 1], context, k - 1, Len(chromosome))

\* the batch with every deadline replaced, and the metrics with every score
WithDeadlines(tasks, deadline) == [k \in DOMAIN tasks |-> [tasks[k] EXCEPT !.deadline = deadline]]

WithScores(base_metrics, score) ==
    [k \in DOMAIN base_metrics |-> [base_metrics[k] EXCEPT !.score = score]]

\* C28: for two orderings of the same batch under the same context the
\* difference of their fitness values is the difference of their label-weight
\* and mood-bonus terms, and stays the same when the heuristic scores or the
\* deadlines entering _fitness are replaced by others: neither term depends on
\* the position.
C28_DifferenceIgnoresScoreAndDeadline ==
    probe.op = "_fitness" =>
        \A q \in Chromosomes(Len(probe.chromosome)) :
            LET n == Len(probe.chromosome)
                Diff(tasks, base_metrics) ==
                    fitness(probe.chromosome, tasks, base_metrics, probe.context, probe.clock)
                    - fitness(q, tasks, base_metrics, probe.context, probe.clock)
            IN  /\ probe.value = fitness(probe.chromosome, probe.tasks, probe.base_metrics,
                                         probe.context, probe.clock)
                /\ Diff(probe.tasks, probe.base_metrics)
                     = WeightAndMood(probe.chromosome, n, probe.tasks, probe.base_metrics,
                                     probe.context)
                       - WeightAndMood(q, n, probe.tasks, probe.base_metrics, probe.context)
                /\ \A deadline \in ProbeDeadlines, score \in {-170, 0, 260} :
                      Diff(WithDeadlines(probe.tasks, deadline),
                           WithScores(probe.base_metrics, score))
                        = Diff(probe.tasks, probe.base_metrics)

\* an ordering of tasks with different scores and a deadline adjustment whose
\* fitness differs from that of another ordering
C28_Witness ==
    /\ probe.op = "_fitness"
    /\ Len(probe.chromosome) >= 2
    /\ \E a, b \in DOMAIN probe.base_metrics :
          probe.base_metrics[a].score # probe.base_metrics[b].score
    /\ \E k \in DOMAIN probe.tasks : deadline_adjustment(probe.tasks[k], probe.clock) # 0
    /\ \E q \in Chromosomes(Len(probe.chromosome)) :
          fitness(q, probe.tasks, probe.base_metrics, probe.context, probe.clock) # probe.value

LowMoods == {"sad", "very_sad", "tired"}

\* the gain in fitness from swapping the genes at positions k and k + 1 (1-based)
SwapGain(k) ==
    fitness(Swap(probe.chromosome, k, k + 1), probe.tasks, probe.base_metrics,
            probe.context, probe.clock) - probe.value

\* C29: with context mood sad, very_sad or tired, swapping a hard task with
\* the non-hard task of equal label weight placed immediately before it
\* raises the fitness by exactly 1 (100 hundredths).
C29_LowMoodSwapGainsOne ==
    (probe.op = "_fitness" /\ RefMood(probe.context) \in LowMoods) =>
        \A k \in 1..(Len(probe.chromosome) - 1) :
            LET before == probe.chromosome[k] + 1
                after == probe.chromosome[k + 1] + 1
            IN  (/\ RefDifficulty(probe.tasks[before]) # "hard"
                 /\ RefDifficulty(probe.tasks[after]) = "hard"
                 /\ probe.base_metrics[before].weight = probe.base_metrics[after].weight)
                => SwapGain(k) = 100

\* the swap gains exactly 1 when the task before the hard one has difficulty
\* easy, medium or none
LowMoodSwapOnKnownDifficulties ==
    (probe.op = "_fitness" /\ RefMood(probe.context) \in LowMoods) =>
        \A k \in 1..(Len(probe.chromosome) - 1) :
            LET before == probe.chromosome[k] + 1
                after == probe.chromosome[k + 1] + 1
            IN  (/\ probe.tasks[before].difficulty \in {"easy", "medium", Absent}
                 /\ probe.tasks[after].difficulty = "hard"
                 /\ probe.base_metrics[before].weight = probe.base_metrics[after].weight)
                => SwapGain(k) = 100

\* a medium task stands immediately before a hard task of the same label
\* under a low mood
LowMoodSwapHappens ==
    /\ probe.op = "_fitness" /\ RefMood(probe.context) \in LowMoods
    /\ \E k \in 1..(Len(probe.chromosome) - 1) :
          /\ probe.tasks[probe.chromosome[k] + 1].difficulty = "medium"
          /\ probe.tasks[probe.chromosome[k + 1] + 1].difficulty = "hard"
          /\ probe.base_metrics[probe.chromosome[k] + 1].weight
               = probe.base_metrics[probe.chromosome[k + 1] + 1].weight

\* the child of the probed _crossover after the slice copy
SlicedChild ==
    [k \in 1..Len(probe.parent1) |->
        IF probe.cut[1] < k /\ k <= probe.cut[2] THEN probe.parent1[k] ELSE NoneGene]

\* the fill loop of the probed _crossover after the first k genes of parent2
FilledUpTo(k) == fill_child(SlicedChild, SubSeq(probe.parent2, 1, k), 1, 0)

\* C30: in _crossover, for parents that are permutations of the same index
\* set of size 2 or more, the fill pointer never moves past the last
\* position and no child position is left empty: after every gene of parent2
\* the number of its remaining genes missing from the copied slice equals
\* the number of empty child positions.
C30_FillStaysInBounds ==
    (/\ probe.op = "_crossover"
     /\ Len(probe.parent1) >= 2
     /\ probe.random <= scheduler.crossover_rate) =>
        LET n == Len(probe.parent1)
            slice == {probe.parent1[k] : k \in (probe.cut[1] + 1)..probe.cut[2]}
        IN  /\ probe.error = "none"
            /\ Len(probe.child) = n
            /\ NoneGene \notin Range(probe.child)
            /\ \A k \in 0..n :
                  /\ FilledUpTo(k).ok
                  /\ FilledUpTo(k).pointer <= n - 1
                  /\ Cardinality({j \in (k + 1)..n : probe.parent2[j] \notin slice})
                       = Cardinality({q \in 1..n : FilledUpTo(k).child[q] = NoneGene})

\* a crossover of two different parents of three genes that keeps the middle
\* gene of parent1 and fills both ends from parent2
C30_Witness ==
    /\ probe.op = "_crossover"
    /\ Len(probe.parent1) = 3
    /\ probe.random <= scheduler.crossover_rate
    /\ probe.cut = <<1, 2>>
    /\ probe.error = "none"
    /\ probe.child \notin {probe.parent1, probe.parent2}
    /\ FilledUpTo(3).pointer = 2

\* C5: a call and its repetition with the same tasks, context, configuration,
\* clock and generator seed return the same schedule and the same fitnessHistory.
C5_SameSeedSameResult ==
    (Done(1) /\ Done(3)) =>
        /\ frames[1].result.schedule = frames[3].result.schedule
        /\ frames[1].result.metadata.fitnessHistory
              = frames[3].result.metadata.fitnessHistory

\* the call and its repetition both returned an order of three tasks that was
\* bred in the second generation
C5_Witness ==
    /\ Done(1) /\ Done(3)
    /\ Len(frames[1].tasks) = 3
    /\ frames[1].result.metadata.evaluatedGenerations = 2
    /\ frames[3].tasks = frames[1].tasks

\* C6: an invocation that runs while another one runs returns what it returns
\* when it runs alone on the same random stream.
C6_UnaffectedByConcurrentCall ==
    (Done(1) /\ Done(3)) => frames[1].result = frames[3].result

====
